---- MODULE Spec2Model ----
(***************************************************************************)
(* A model of the user-space demand pager of CS24-lab08:                   *)
(*   src/virtualmem.c      the pager (page table, map/unmap, the SIGSEGV   *)
(*                         and SIGALRM handlers)                           *)
(*   src/vmpolicy_fifo.c   the FIFO replacement policy                     *)
(*   src/vmpolicy_clru.c   the CLOCK/LRU replacement policy                *)
(*                                                                         *)
(* The C functions are operators on a record s that holds the program's    *)
(* globals together with the part of the operating system they act on      *)
(* (the protection and contents of each page of the pool, the swap file).  *)
(* A handler is one action: SIGALRM is masked while sigsegv_handler runs,  *)
(* and the host is suspended while either handler runs.                    *)
(*                                                                         *)
(* A page's PAGE_SIZE bytes are moved as a unit by read() and write(), so  *)
(* the contents of a page (and of a swap slot) are one value.              *)
(* A queue node is named by the page it holds: policy_page_mapped(p) is    *)
(* only called for a page that has no node (NodeClash records otherwise).  *)
(***************************************************************************)
EXTENDS Integers, Sequences, FiniteSets, TLC

\* ------------------------------------------------------------------ bounds
\* number of pages of the pool (NUM_PAGES of virtualmem.h)
NUM_PAGES == 5
\* the host of Spec touches the first MaxTouched pages of the pool
MaxTouched == 4
\* largest max_resident the host passes to vmem_init
MaxResident == 3
\* the host stops once num_faults reaches this
MaxFaults == 7
\* the host of SpecFifo stops once num_faults reaches this
MaxFaultsFifo == 9
\* the host of SpecData touches the first MaxTouchedData pages of the pool,
\* is given at most MaxResidentData resident pages and stops once num_faults
\* reaches MaxFaultsData
MaxTouchedData == 3
MaxResidentData == 2
MaxFaultsData == 7
\* the host writes values 1..MaxVal (a fresh swap slot reads 0)
MaxVal == 2
\* the host of SpecReinit touches the first MaxTouchedReinit pages, is given at
\* most MaxResidentReinit resident pages, stops once num_faults reaches
\* MaxFaultsReinit and calls vmem_init again only while num_loads is below
\* MaxLoadsReinit
MaxTouchedReinit == 2
MaxResidentReinit == 2
MaxFaultsReinit == 4
MaxLoadsReinit == 3
\* the host of SpecLive touches the first MaxTouchedLive pages and starts no
\* access that faults once num_faults has reached MaxFaultsLive; the timer
\* of SpecLive expires MaxTicks times
MaxTouchedLive == 3
MaxFaultsLive == 7
MaxTicks == 4

\* --------------------------------------------------------------- constants
VIRTUALMEM_ADDR_START == 536870912
\* virtualmem.h is not among the sources: the page size of the host
PAGE_SIZE == 4096

NULL == -1
\* a pointer to a node that was passed to free()
DANGLING == -2

PAGEPERM_NONE == "PAGEPERM_NONE"
PAGEPERM_READ == "PAGEPERM_READ"
PAGEPERM_RDWR == "PAGEPERM_RDWR"

PROT_NONE == "PROT_NONE"
PROT_READ == "PROT_READ"
PROT_READ_WRITE == "PROT_READ|PROT_WRITE"
\* the address range of the page is not mapped
UNMAPPED == "UNMAPPED"

SEGV_MAPERR == "SEGV_MAPERR"
SEGV_ACCERR == "SEGV_ACCERR"

FIFO == "FIFO"
CLRU == "CLRU"

Pages == 0 .. (NUM_PAGES - 1)
Values == 0 .. MaxVal
HostPages == 0 .. (MaxTouched - 1)

\* the ways the process ends other than by returning from a handler
AB_SEGFAULT == "segmentation fault at address"
AB_EXCEEDED == "map_page: exceeded physical memory"
AB_MPROTECT == "mprotect"
AB_ASSERT_MAP_NOT_RESIDENT == "map_page: assert(!is_page_resident(page))"
AB_ASSERT_UNMAP_RESIDENT == "unmap_page: assert(is_page_resident(page))"
AB_ASSERT_UNMAP_COUNT == "unmap_page: assert(num_resident > 0)"
AB_ASSERT_VICTIM == "sigsegv_handler: assert(is_page_resident(victim))"
AB_ASSERT_CAP == "sigsegv_handler: assert(num_resident <= max_resident)"
AB_ASSERT_ACCERR == "sigsegv_handler: assert(is_page_resident(page))"
AB_NULL_DEREF == "NULL page_node dereferenced"
AB_USE_AFTER_FREE == "use of a freed page_node"
AB_NODE_CLASH == "page_mapped for a page that still has a node"

VARIABLES
    policy,         \* which vmpolicy_*.c is linked in
    page_table,     \* pte_t page_table[NUM_PAGES]
    num_resident,
    max_resident,
    num_faults,
    num_loads,
    loaded,         \* the policy's loaded_pages_t and its page_nodes
    prot,           \* the protection in force on each page's address range
    mem,            \* the contents of each mapped page
    swap,           \* the contents of each slot of the swap file
    aborted,        \* "" while the process runs, else why it ended
    pending,        \* the host's access in progress
    ev,             \* what the last step did
    shadow,         \* the value the host last wrote to each page
    unevicted,      \* pages passed to page_mapped and not yet returned as victim
    map_calls,      \* map_page calls since the last vmem_init
    scen,           \* how far the host is into the scenario ClockScenario
    sig             \* signal delivery: the handler running, the blocked signals

vars == <<policy, page_table, num_resident, max_resident, num_faults, num_loads,
          loaded, prot, mem, swap, aborted, pending, ev, shadow, unevicted,
          map_calls, scen, sig>>

\* ------------------------------------------------------------ the page table
ZeroPTE == [perm |-> PAGEPERM_NONE, resident |-> FALSE, accessed |-> FALSE,
            dirty |-> FALSE]

Abort(s, why) == [s EXCEPT !.aborted = why]

Running(s) == s.aborted = ""

vmem_start == VIRTUALMEM_ADDR_START

vmem_end == vmem_start + (NUM_PAGES * PAGE_SIZE)

page_to_addr(page) == vmem_start + page * PAGE_SIZE

addr_to_page(addr) == (addr - vmem_start) \div PAGE_SIZE

clear_page_entry(s, page) == [s EXCEPT !.page_table[page] = ZeroPTE]

set_page_resident(s, page) == [s EXCEPT !.page_table[page].resident = TRUE]

is_page_resident(s, page) == s.page_table[page].resident

set_page_accessed(s, page) == [s EXCEPT !.page_table[page].accessed = TRUE]

clear_page_accessed(s, page) == [s EXCEPT !.page_table[page].accessed = FALSE]

is_page_accessed(s, page) == s.page_table[page].accessed

set_page_dirty(s, page) == [s EXCEPT !.page_table[page].dirty = TRUE]

is_page_dirty(s, page) == s.page_table[page].dirty

get_page_permission(s, page) == s.page_table[page].perm

pageperm_to_mmap(perm) ==
    CASE perm = PAGEPERM_NONE -> PROT_NONE
      [] perm = PAGEPERM_READ -> PROT_READ
      [] perm = PAGEPERM_RDWR -> PROT_READ_WRITE

\* set_page_permission without its mprotect() call: C4 depends on the call
set_page_permission_no_mprotect(s, page, perm) ==
    IF ~Running(s) THEN s
    ELSE [s EXCEPT !.page_table[page].perm = perm]

\* mprotect() of a range that is not mapped fails (ENOMEM), and the code aborts
set_page_permission(s, page, perm) ==
    IF ~Running(s) THEN s
    ELSE IF s.prot[page] = UNMAPPED THEN Abort(s, AB_MPROTECT)
    ELSE [s EXCEPT !.prot[page] = pageperm_to_mmap(perm),
                   !.page_table[page].perm = perm]

\* ------------------------------------------------------- the policies' queue
\* loaded_pages_t with its page_nodes: head, tail, num_loaded (CLOCK/LRU only),
\* and for each allocated node (live) its next and prev (CLOCK/LRU only)
EmptyQueue ==
    [head |-> NULL, tail |-> NULL, num_loaded |-> 0,
     next |-> [n \in Pages |-> NULL], prev |-> [n \in Pages |-> NULL],
     live |-> {}]

\* the node pointer n cannot be dereferenced
BadPtr(q, n) == n \notin q.live

PtrFault(n) == IF n = NULL THEN AB_NULL_DEREF ELSE AB_USE_AFTER_FREE

\* malloc(sizeof(page_node)) for the node of page n
Malloc(q, n) == [q EXCEPT !.live = @ \cup {n}, !.next[n] = NULL, !.prev[n] = NULL]

\* free(n): every pointer still holding n dangles
Free(q, n) ==
    [q EXCEPT !.live = @ \ {n},
              !.next = [m \in Pages |-> IF m = n THEN NULL
                                        ELSE IF @[m] = n THEN DANGLING ELSE @[m]],
              !.prev = [m \in Pages |-> IF m = n THEN NULL
                                        ELSE IF @[m] = n THEN DANGLING ELSE @[m]],
              !.head = IF @ = n THEN DANGLING ELSE @,
              !.tail = IF @ = n THEN DANGLING ELSE @]

\* the pages met following next from head, the first k nodes at most
RECURSIVE Chain(_, _, _)
Chain(q, n, k) ==
    IF k = 0 \/ n \notin q.live THEN <<>>
    ELSE <<n>> \o Chain(q, q.next[n], k - 1)

Queue(q) == Chain(q, q.head, NUM_PAGES + 1)

Range(seq) == {seq[i] : i \in DOMAIN seq}

\* the pages met following next from node n up to the node tail, the first k
\* nodes at most
RECURSIVE ChainTo(_, _, _)
ChainTo(q, n, k) ==
    IF k = 0 \/ n \notin q.live THEN <<>>
    ELSE IF n = q.tail THEN <<n>>
    ELSE <<n>> \o ChainTo(q, q.next[n], k - 1)

\* the queue read from head to tail
QueueToTail(q) == ChainTo(q, q.head, NUM_PAGES + 1)

\* ---------------------------------------------------------- vmpolicy_fifo.c
fifo_policy_init(s) == [s EXCEPT !.loaded = EmptyQueue]

\* policy_page_mapped putting the node at the front of the queue: C5 depends
\* on the node going to the back
fifo_policy_page_mapped_front(s, page) ==
    IF ~Running(s) THEN s
    ELSE IF page \in s.loaded.live THEN Abort(s, AB_NODE_CLASH)
    ELSE IF s.loaded.head = DANGLING THEN Abort(s, AB_USE_AFTER_FREE)
    ELSE LET q == Malloc(s.loaded, page) IN
         IF q.head = NULL
         THEN [s EXCEPT !.loaded = [q EXCEPT !.head = page, !.tail = page]]
         ELSE [s EXCEPT !.loaded = [q EXCEPT !.next[page] = q.head, !.head = page]]

fifo_policy_page_mapped(s, page) ==
    IF ~Running(s) THEN s
    ELSE IF page \in s.loaded.live THEN Abort(s, AB_NODE_CLASH)
    ELSE IF s.loaded.head = DANGLING THEN Abort(s, AB_USE_AFTER_FREE)
    ELSE LET q == Malloc(s.loaded, page) IN
         IF q.head = NULL
         THEN [s EXCEPT !.loaded = [q EXCEPT !.head = page, !.tail = page]]
         ELSE IF BadPtr(q, q.tail) THEN Abort(s, PtrFault(q.tail))
         ELSE [s EXCEPT !.loaded = [q EXCEPT !.next[q.tail] = page, !.tail = page]]

fifo_policy_timer_tick(s) == s

\* choose_and_evict_victim_page returning the head's page and leaving its node
\* in the queue: C8 depends on the node being taken out
fifo_choose_and_keep_victim_page(s) ==
    IF ~Running(s) THEN s
    ELSE LET q == s.loaded IN
         IF BadPtr(q, q.head) THEN Abort(s, PtrFault(q.head))
         ELSE [s EXCEPT !.victim = q.head]

\* the victim is left in s.victim
fifo_choose_and_evict_victim_page(s) ==
    IF ~Running(s) THEN s
    ELSE LET q == s.loaded IN
         IF BadPtr(q, q.head) THEN Abort(s, PtrFault(q.head))
         ELSE [s EXCEPT !.victim = q.head,
                        !.loaded = Free([q EXCEPT !.head = q.next[q.head]], q.head)]

\* ---------------------------------------------------------- vmpolicy_clru.c
clru_policy_init(s) == [s EXCEPT !.loaded = EmptyQueue]

clru_policy_page_mapped(s, page) ==
    IF ~Running(s) THEN s
    ELSE IF page \in s.loaded.live THEN Abort(s, AB_NODE_CLASH)
    ELSE IF s.loaded.head = DANGLING THEN Abort(s, AB_USE_AFTER_FREE)
    ELSE LET q == Malloc(s.loaded, page) IN
         IF q.head = NULL
         THEN [s EXCEPT !.loaded = [q EXCEPT !.head = page, !.tail = page,
                                             !.num_loaded = @ + 1]]
         ELSE IF BadPtr(q, q.tail) THEN Abort(s, PtrFault(q.tail))
         ELSE [s EXCEPT !.loaded = [q EXCEPT !.prev[page] = q.tail,
                                             !.next[q.tail] = page,
                                             !.tail = page,
                                             !.num_loaded = @ + 1]]

\* lines 149-158: take node out of the queue (nothing is done for the tail)
clru_unlink(s, node) ==
    LET q == s.loaded IN
    IF q.head = DANGLING \/ (node # q.head /\ q.tail = DANGLING)
    THEN Abort(s, AB_USE_AFTER_FREE)
    ELSE IF node = q.head
    THEN \* node->next->prev = NULL; loaded->head = node->next;
         IF BadPtr(q, q.next[node]) THEN Abort(s, PtrFault(q.next[node]))
         ELSE [s EXCEPT !.loaded = [q EXCEPT !.prev[q.next[node]] = NULL,
                                             !.head = q.next[node]]]
    ELSE IF node # q.tail
    THEN \* node->prev->next = node->next; node->next->prev = node->prev;
         IF BadPtr(q, q.prev[node]) THEN Abort(s, PtrFault(q.prev[node]))
         ELSE LET q1 == [q EXCEPT !.next[q.prev[node]] = q.next[node]] IN
              IF BadPtr(q1, q1.next[node]) THEN Abort(s, PtrFault(q1.next[node]))
              ELSE [s EXCEPT !.loaded =
                        [q1 EXCEPT !.prev[q1.next[node]] = q1.prev[node]]]
    ELSE s

\* lines 160-164: add node at the back of the queue
clru_append(s, node) ==
    IF ~Running(s) THEN s
    ELSE LET q1 == [s.loaded EXCEPT !.prev[node] = s.loaded.tail]
             q2 == [q1 EXCEPT !.next[node] = NULL]
         IN  IF BadPtr(q2, q2.tail) THEN Abort(s, PtrFault(q2.tail))
             ELSE [s EXCEPT !.loaded = [q2 EXCEPT !.next[q2.tail] = node,
                                                  !.tail = node]]

\* the loop body clearing accessed without lowering the permission to NONE:
\* C3 as amended depends on the two being done together
clru_tick_body_keep_permission(s, node) ==
    IF is_page_accessed(s, node)
    THEN clru_append(clru_unlink(clear_page_accessed(s, node), node), node)
    ELSE s

\* the tick lowering an accessed page to READ instead of NONE: a later read
\* would then go unnoticed
clru_tick_body_lower_to_read(s, node) ==
    IF is_page_accessed(s, node)
    THEN LET s1 == clear_page_accessed(s, node)
             s2 == set_page_permission(s1, node, PAGEPERM_READ)
         IN  IF ~Running(s2) THEN s2
             ELSE clru_append(clru_unlink(s2, node), node)
    ELSE s

\* lines 136-169: the body of the for loop for one node
clru_tick_body(s, node) ==
    IF is_page_accessed(s, node)
    THEN LET s1 == clear_page_accessed(s, node)
             s2 == set_page_permission(s1, node, PAGEPERM_NONE)
         IN  IF ~Running(s2) THEN s2
             ELSE clru_append(clru_unlink(s2, node), node)
    ELSE s

\* the loop stopping one node short, for (i = 0; i < loaded->num_loaded - 1;
\* i++): C6 as amended depends on the tick visiting every node
RECURSIVE clru_tick_loop_short(_, _, _)
clru_tick_loop_short(s, node, i) ==
    IF ~Running(s) \/ i >= s.loaded.num_loaded - 1 THEN s
    ELSE IF BadPtr(s.loaded, node) THEN Abort(s, PtrFault(node))
    ELSE LET next_node == s.loaded.next[node]
         IN  clru_tick_loop_short(clru_tick_body(s, node), next_node, i + 1)

\* lines 135-170: for (i = 0; i < loaded->num_loaded; i++), node the i-th visited
RECURSIVE clru_tick_loop(_, _, _)
clru_tick_loop(s, node, i) ==
    IF ~Running(s) \/ i >= s.loaded.num_loaded THEN s
    ELSE IF BadPtr(s.loaded, node) THEN Abort(s, PtrFault(node))
    ELSE LET next_node == s.loaded.next[node]
         IN  clru_tick_loop(clru_tick_body(s, node), next_node, i + 1)

clru_policy_timer_tick(s) ==
    IF s.loaded.num_loaded = 0 \/ s.loaded.num_loaded = 1 THEN s
    ELSE clru_tick_loop(s, s.loaded.head, 0)

\* choose_and_evict_victim_page returning the head's page and leaving its node
\* in the queue: C7 depends on the node being taken out
clru_choose_and_keep_victim_page(s) ==
    IF ~Running(s) THEN s
    ELSE LET q == s.loaded IN
         IF BadPtr(q, q.head) THEN Abort(s, PtrFault(q.head))
         ELSE [s EXCEPT !.victim = q.head]

\* the victim is left in s.victim
clru_choose_and_evict_victim_page(s) ==
    IF ~Running(s) THEN s
    ELSE LET q == s.loaded IN
         IF BadPtr(q, q.head) THEN Abort(s, PtrFault(q.head))
         ELSE [s EXCEPT !.victim = q.head,
                        !.loaded = Free([q EXCEPT !.head = q.next[q.head],
                                                  !.num_loaded = @ - 1], q.head)]

\* ------------------------------------------------ vmpolicy.h, as it is linked
policy_init(s) ==
    IF s.policy = FIFO THEN fifo_policy_init(s) ELSE clru_policy_init(s)

policy_page_mapped(s, page) ==
    IF s.policy = FIFO THEN fifo_policy_page_mapped(s, page)
    ELSE clru_policy_page_mapped(s, page)

policy_timer_tick(s) ==
    IF s.policy = FIFO THEN fifo_policy_timer_tick(s)
    ELSE clru_policy_timer_tick(s)

choose_and_evict_victim_page(s) ==
    IF s.policy = FIFO THEN fifo_choose_and_evict_victim_page(s)
    ELSE clru_choose_and_evict_victim_page(s)

\* ------------------------------------------------------------ virtualmem.c
map_page_no_swap_read(s, page, initial_perm) ==
    IF ~Running(s) THEN s
    ELSE IF is_page_resident(s, page) THEN Abort(s, AB_ASSERT_MAP_NOT_RESIDENT)
    ELSE LET s1 == [s EXCEPT !.num_resident = @ + 1] IN
         IF s1.num_resident > s1.max_resident THEN Abort(s1, AB_EXCEEDED)
         ELSE LET s2 == [s1 EXCEPT !.prot[page] = PROT_READ_WRITE,
                                   !.mem[page] = 0]
                  s4 == set_page_resident(clear_page_entry(s2, page), page)
                  s5 == set_page_permission(s4, page, initial_perm)
                  s6 == [s5 EXCEPT !.num_loads = @ + 1, !.mapped = page]
              IN  IF ~Running(s5) THEN s5 ELSE policy_page_mapped(s6, page)

map_page(s, page, initial_perm) ==
    IF ~Running(s) THEN s
    ELSE IF is_page_resident(s, page) THEN Abort(s, AB_ASSERT_MAP_NOT_RESIDENT)
    ELSE LET s1 == [s EXCEPT !.num_resident = @ + 1] IN
         IF s1.num_resident > s1.max_resident THEN Abort(s1, AB_EXCEEDED)
         ELSE LET \* mmap(MAP_FIXED | MAP_SHARED | MAP_ANONYMOUS): zero-filled
                  s2 == [s1 EXCEPT !.prot[page] = PROT_READ_WRITE,
                                   !.mem[page] = 0]
                  \* lseek(); read(fd_swapfile, virt_addr, PAGE_SIZE)
                  s3 == [s2 EXCEPT !.mem[page] = s2.swap[page]]
                  s4 == set_page_resident(clear_page_entry(s3, page), page)
                  s5 == set_page_permission(s4, page, initial_perm)
                  s6 == [s5 EXCEPT !.num_loads = @ + 1, !.mapped = page]
              IN  IF ~Running(s5) THEN s5 ELSE policy_page_mapped(s6, page)

\* unmap_page clearing only the resident bit of the entry: C15 depends on
\* clear_page_entry
unmap_page_clear_resident_only(s, page) ==
    IF ~Running(s) THEN s
    ELSE IF ~(s.num_resident > 0) THEN Abort(s, AB_ASSERT_UNMAP_COUNT)
    ELSE IF ~is_page_resident(s, page) THEN Abort(s, AB_ASSERT_UNMAP_RESIDENT)
    ELSE LET s1 == IF is_page_dirty(s, page)
                   THEN LET r == set_page_permission(s, page, PAGEPERM_READ)
                        IN  IF ~Running(r) THEN r
                            ELSE [r EXCEPT !.swap[page] = r.mem[page],
                                           !.written = page]
                   ELSE s
         IN  IF ~Running(s1) THEN s1
             ELSE [s1 EXCEPT !.prot[page] = UNMAPPED, !.mem[page] = 0,
                             !.page_table[page].resident = FALSE,
                             !.num_resident = @ - 1]

\* unmap_page writing every page back, dirty or not: C12 depends on the test
\* of the dirty bit
unmap_page_always_writeback(s, page) ==
    IF ~Running(s) THEN s
    ELSE IF ~(s.num_resident > 0) THEN Abort(s, AB_ASSERT_UNMAP_COUNT)
    ELSE IF ~is_page_resident(s, page) THEN Abort(s, AB_ASSERT_UNMAP_RESIDENT)
    ELSE LET r == set_page_permission(s, page, PAGEPERM_READ)
         IN  IF ~Running(r) THEN r
             ELSE LET s1 == [r EXCEPT !.swap[page] = r.mem[page],
                                      !.written = page]
                      s2 == [s1 EXCEPT !.prot[page] = UNMAPPED, !.mem[page] = 0]
                      s3 == clear_page_entry(s2, page)
                  IN  [s3 EXCEPT !.num_resident = @ - 1]

\* unmap_page without the write-back of a dirty page: C2 depends on it
unmap_page_no_writeback(s, page) ==
    IF ~Running(s) THEN s
    ELSE IF ~(s.num_resident > 0) THEN Abort(s, AB_ASSERT_UNMAP_COUNT)
    ELSE IF ~is_page_resident(s, page) THEN Abort(s, AB_ASSERT_UNMAP_RESIDENT)
    ELSE LET s2 == [s EXCEPT !.prot[page] = UNMAPPED, !.mem[page] = 0]
             s3 == clear_page_entry(s2, page)
         IN  [s3 EXCEPT !.num_resident = @ - 1]

unmap_page(s, page) ==
    IF ~Running(s) THEN s
    ELSE IF ~(s.num_resident > 0) THEN Abort(s, AB_ASSERT_UNMAP_COUNT)
    ELSE IF ~is_page_resident(s, page) THEN Abort(s, AB_ASSERT_UNMAP_RESIDENT)
    ELSE LET s1 == IF is_page_dirty(s, page)
                   THEN LET r == set_page_permission(s, page, PAGEPERM_READ)
                        IN  IF ~Running(r) THEN r
                            \* lseek(); write(fd_swapfile, addr, PAGE_SIZE)
                            ELSE [r EXCEPT !.swap[page] = r.mem[page],
                                           !.written = page]
                   ELSE s
         IN  IF ~Running(s1) THEN s1
             ELSE LET \* munmap(addr, PAGE_SIZE)
                      s2 == [s1 EXCEPT !.prot[page] = UNMAPPED, !.mem[page] = 0]
                      s3 == clear_page_entry(s2, page)
                  IN  [s3 EXCEPT !.num_resident = @ - 1]

\* the not-mapped case evicting only once num_resident exceeds max_resident:
\* C1 depends on the test num_resident == max_resident
segv_maperr_evict_late(s, page) ==
    LET s1 == IF s.num_resident > s.max_resident
              THEN LET r == choose_and_evict_victim_page(s) IN
                   IF ~Running(r) THEN r
                   ELSE IF ~is_page_resident(r, r.victim)
                   THEN Abort(r, AB_ASSERT_VICTIM)
                   ELSE unmap_page(r, r.victim)
              ELSE s
    IN  map_page(s1, page, PAGEPERM_NONE)

\* the not-mapped case mapping the page readable, map_page(page,
\* PAGEPERM_READ): C11 depends on the page being mapped with PAGEPERM_NONE,
\* so that the first access is seen by the access-forbidden case
segv_maperr_map_read(s, page) ==
    IF ~(s.num_resident <= s.max_resident) THEN Abort(s, AB_ASSERT_CAP)
    ELSE LET s1 == IF s.num_resident = s.max_resident
                   THEN LET r == choose_and_evict_victim_page(s) IN
                        IF ~Running(r) THEN r
                        ELSE IF ~is_page_resident(r, r.victim)
                        THEN Abort(r, AB_ASSERT_VICTIM)
                        ELSE unmap_page(r, r.victim)
                   ELSE s
         IN  map_page(s1, page, PAGEPERM_READ)

\* lines 692-706
segv_maperr(s, page) ==
    IF ~(s.num_resident <= s.max_resident) THEN Abort(s, AB_ASSERT_CAP)
    ELSE LET s1 == IF s.num_resident = s.max_resident
                   THEN LET r == choose_and_evict_victim_page(s) IN
                        IF ~Running(r) THEN r
                        ELSE IF ~is_page_resident(r, r.victim)
                        THEN Abort(r, AB_ASSERT_VICTIM)
                        ELSE unmap_page(r, r.victim)
                   ELSE s
         IN  map_page(s1, page, PAGEPERM_NONE)

\* the access-forbidden case granting read and write at once: C10 depends on
\* the two steps NONE -> READ -> RDWR
segv_accerr_one_step(s, page) ==
    IF ~is_page_resident(s, page) THEN Abort(s, AB_ASSERT_ACCERR)
    ELSE IF get_page_permission(s, page) # PAGEPERM_RDWR
    THEN LET r == set_page_permission(s, page, PAGEPERM_RDWR)
         IN  IF ~Running(r) THEN r
             ELSE set_page_dirty(set_page_accessed(r, page), page)
    ELSE s

\* lines 709-737
segv_accerr_read_dirty(s, page) ==
    IF ~is_page_resident(s, page) THEN Abort(s, AB_ASSERT_ACCERR)
    ELSE IF get_page_permission(s, page) = PAGEPERM_NONE
    THEN LET r == set_page_permission(s, page, PAGEPERM_READ)
         IN  IF ~Running(r) THEN r
             ELSE set_page_dirty(set_page_accessed(r, page), page)
    ELSE IF get_page_permission(s, page) = PAGEPERM_READ
    THEN LET r == set_page_permission(s, page, PAGEPERM_RDWR)
         IN  IF ~Running(r) THEN r ELSE set_page_dirty(r, page)
    ELSE s

segv_accerr_no_dirty(s, page) ==
    IF ~is_page_resident(s, page) THEN Abort(s, AB_ASSERT_ACCERR)
    ELSE IF get_page_permission(s, page) = PAGEPERM_NONE
    THEN LET r == set_page_permission(s, page, PAGEPERM_READ)
         IN  IF ~Running(r) THEN r ELSE set_page_accessed(r, page)
    ELSE IF get_page_permission(s, page) = PAGEPERM_READ
    THEN set_page_permission(s, page, PAGEPERM_RDWR)
    ELSE s

segv_accerr(s, page) ==
    IF ~is_page_resident(s, page) THEN Abort(s, AB_ASSERT_ACCERR)
    ELSE IF get_page_permission(s, page) = PAGEPERM_NONE
    THEN LET r == set_page_permission(s, page, PAGEPERM_READ)
         IN  IF ~Running(r) THEN r ELSE set_page_accessed(r, page)
    ELSE IF get_page_permission(s, page) = PAGEPERM_READ
    THEN LET r == set_page_permission(s, page, PAGEPERM_RDWR)
         IN  IF ~Running(r) THEN r ELSE set_page_dirty(r, page)
    ELSE s

\* the handler counting the fault before it tests the address: C13 depends on
\* the test coming first
sigsegv_handler_count_first(s, addr, si_code) ==
    LET s1 == [s EXCEPT !.num_faults = @ + 1] IN
    IF addr < vmem_start \/ addr >= vmem_end THEN Abort(s1, AB_SEGFAULT)
    ELSE LET page == addr_to_page(addr)
         IN  IF si_code = SEGV_MAPERR THEN segv_maperr(s1, page)
             ELSE IF si_code = SEGV_ACCERR THEN segv_accerr(s1, page)
             ELSE s1

sigsegv_handler(s, addr, si_code) ==
    IF addr < vmem_start \/ addr >= vmem_end THEN Abort(s, AB_SEGFAULT)
    ELSE LET s1 == [s EXCEPT !.num_faults = @ + 1]
             page == addr_to_page(addr)
         IN  IF si_code = SEGV_MAPERR THEN segv_maperr(s1, page)
             ELSE IF si_code = SEGV_ACCERR THEN segv_accerr(s1, page)
             ELSE s1

sigalrm_handler(s) == policy_timer_tick(s)

\* vmem_init: num_loads is not assigned; the pool's mappings are not touched;
\* the swap file is created anew (the old one was unlinked) and reads 0
vmem_init(s, _max_resident) ==
    LET s1 == [s EXCEPT !.num_resident = 0,
                        !.max_resident = _max_resident,
                        !.num_faults = 0,
                        !.page_table = [p \in Pages |-> ZeroPTE]]
        s2 == policy_init(s1)
    IN  [s2 EXCEPT !.swap = [p \in Pages |-> 0]]

\* ------------------------------------------------------------- the machine
\* An access in progress (pending) and the last step (ev) record: op, the page
\* or address, the value moved; from and pte0, the protection and the
\* page-table entry of the page when the access began; nf and nl, the faults
\* and page loads the access has cost; tk, whether a tick changed the page's
\* entry while the access was in progress; for a fault, its si_code, the
\* victim and the victim's entry; for a tick, the queue (q0) and the accessed
\* pages (acc0) it found; for a fault, fpte is the faulting page's entry when
\* the handler began; for a vmem_init ("init"), val is its argument.
\* the program's state as the record the operators above work on; victim,
\* mapped and written are what the handler about to run reports: the page
\* choose_and_evict_victim_page returned, the page map_page mapped, the page
\* whose swap slot write() wrote
St ==
    [policy |-> policy, page_table |-> page_table, num_resident |-> num_resident,
     max_resident |-> max_resident, num_faults |-> num_faults,
     num_loads |-> num_loads, loaded |-> loaded, prot |-> prot, mem |-> mem,
     swap |-> swap, aborted |-> aborted, victim |-> NULL, mapped |-> NULL,
     written |-> NULL]

\* the process image before main() runs: static storage is zero, nothing mapped
Boot(pol) ==
    [policy |-> pol, page_table |-> [p \in Pages |-> ZeroPTE], num_resident |-> 0,
     max_resident |-> 0, num_faults |-> 0, num_loads |-> 0, loaded |-> EmptyQueue,
     prot |-> [p \in Pages |-> UNMAPPED], mem |-> [p \in Pages |-> 0],
     swap |-> [p \in Pages |-> 0], aborted |-> "", victim |-> NULL,
     mapped |-> NULL, written |-> NULL]

Install(s) ==
    /\ policy' = s.policy
    /\ page_table' = s.page_table
    /\ num_resident' = s.num_resident
    /\ max_resident' = s.max_resident
    /\ num_faults' = s.num_faults
    /\ num_loads' = s.num_loads
    /\ loaded' = s.loaded
    /\ prot' = s.prot
    /\ mem' = s.mem
    /\ swap' = s.swap
    /\ aborted' = s.aborted

Idle == [op |-> "none", addr |-> 0, val |-> 0, nf |-> 0, nl |-> 0, tk |-> FALSE,
         from |-> UNMAPPED, pte0 |-> ZeroPTE]

NoEvent == [kind |-> "init", op |-> "none", page |-> NULL, addr |-> 0, val |-> 0,
            code |-> "", victim |-> NULL, vpte |-> ZeroPTE, paired |-> TRUE,
            oldest |-> NULL,
            nf |-> 0, nl |-> 0, tk |-> FALSE, from |-> UNMAPPED,
            pte0 |-> ZeroPTE, q0 |-> <<>>, acc0 |-> {}, written |-> NULL,
            raised |-> "", during |-> "", fpte |-> ZeroPTE]

SIGSEGV == "SIGSEGV"
SIGALRM == "SIGALRM"

\* the SIGSEGV handler installed with an empty sa_mask: C14 depends on
\* sigaddset(&action.sa_mask, SIGALRM)
SegvMask_empty == {}

\* action.sa_mask of the SIGSEGV handler: sigemptyset(); sigaddset(SIGALRM)
SegvMask == {SIGALRM}

\* no handler runs (pc = "host"), no signal is blocked, no SIGALRM is pending,
\* none has been delivered (ticks counts those TickCounted delivers);
\* raised is where the process was when the pending SIGALRM was raised, frame
\* the running handler's arguments and what it has reported so far
NoFrame == [addr |-> 0, code |-> "", victim |-> NULL, vpte |-> ZeroPTE,
            mapped |-> NULL, written |-> NULL, nl0 |-> 0, fpte |-> ZeroPTE]

SigIdle == [pc |-> "host", blocked |-> {}, alarm |-> FALSE, raised |-> "",
            frame |-> NoFrame, ticks |-> 0]

InitWith(policies, residents) ==
    \E pol \in policies, mr \in residents :
        LET s == vmem_init(Boot(pol), mr) IN
        /\ policy = s.policy
        /\ page_table = s.page_table
        /\ num_resident = s.num_resident
        /\ max_resident = s.max_resident
        /\ num_faults = s.num_faults
        /\ num_loads = s.num_loads
        /\ loaded = s.loaded
        /\ prot = s.prot
        /\ mem = s.mem
        /\ swap = s.swap
        /\ aborted = s.aborted
        /\ pending = Idle
        /\ ev = [NoEvent EXCEPT !.val = mr]
        /\ shadow = [p \in Pages |-> 0]
        /\ unevicted = <<>>
        /\ map_calls = 0
        /\ scen = IF pol = CLRU /\ mr = 3 THEN 1 ELSE 0
        /\ sig = SigIdle

\* the hardware's answer to an access of kind op where protection pr is in
\* force; an instruction fetch ("exec") is never allowed in the pool, whose
\* pages are never given PROT_EXEC
Allowed(op, pr) ==
    IF op = "read" THEN pr \in {PROT_READ, PROT_READ_WRITE}
    ELSE IF op = "write" THEN pr = PROT_READ_WRITE
    ELSE FALSE

Remove(seq, x) == SelectSeq(seq, LAMBDA y : y # x)

\* The scenario "CLOCK keeps recently-used pages": with CLOCK/LRU and
\* max_resident = 3 the host touches pages 0, 1, 2, touches 0 and 1 again,
\* one timer tick fires, and the host touches page 3.  scen = k (1..5) while
\* the k-th touch is awaited, 6 while the tick is, 7 while the fault on page 3
\* is, 8 right after that fault; 0 once the run has left the scenario.
ClockScenario == <<0, 1, 2, 0, 1>>

ScenNext(e) ==
    IF scen \in 1 .. 5
    THEN IF e.page # ClockScenario[scen] THEN 0
         ELSE IF e.kind = "done" THEN scen + 1
         ELSE IF e.kind = "fault" THEN scen
         ELSE 0
    ELSE IF scen = 6 THEN (IF e.kind = "tick" THEN 7 ELSE 0)
    ELSE IF scen = 7
    THEN (IF e.kind = "fault" /\ e.page = 3 /\ e.code = SEGV_MAPERR THEN 8 ELSE 0)
    ELSE 0

\* the access a completes: the load returns the page's contents, the store
\* changes them
Complete(a) ==
    LET page == addr_to_page(a.addr) IN
    /\ Allowed(a.op, prot[page])
    /\ mem' = IF a.op = "write" THEN [mem EXCEPT ![page] = a.val] ELSE mem
    /\ shadow' = IF a.op = "write" THEN [shadow EXCEPT ![page] = a.val] ELSE shadow
    /\ ev' = [NoEvent EXCEPT !.kind = "done", !.op = a.op, !.page = page,
                             !.val = IF a.op = "read" THEN mem[page] ELSE a.val,
                             !.nf = a.nf, !.nl = a.nl, !.tk = a.tk,
                             !.from = a.from, !.pte0 = a.pte0]
    /\ pending' = Idle
    /\ scen' = ScenNext(ev')
    /\ UNCHANGED <<policy, page_table, num_resident, max_resident, num_faults,
                   num_loads, loaded, prot, swap, aborted, unevicted, map_calls,
                   sig>>

\* the access a raises SIGSEGV: not-mapped or access-forbidden, and the handler
\* runs to its end
Fault(a, maxf) ==
    LET page == addr_to_page(a.addr)
        code == IF prot[page] = UNMAPPED THEN SEGV_MAPERR ELSE SEGV_ACCERR
        s == sigsegv_handler(St, a.addr, code)
    IN  /\ ~Allowed(a.op, prot[page])
        /\ num_faults < maxf
        /\ Install(s)
        /\ pending' = [a EXCEPT !.nf = @ + 1,
                                !.nl = @ + (s.num_loads - num_loads)]
        /\ ev' = [NoEvent EXCEPT !.kind = "fault", !.op = a.op, !.page = page,
                                 !.code = code, !.victim = s.victim,
                                 !.written = s.written,
                                 !.fpte = page_table[page],
                                 !.vpte = IF s.victim \in Pages
                                          THEN page_table[s.victim] ELSE ZeroPTE,
                                 !.paired = (s.victim = NULL
                                             \/ s.victim \in Range(unevicted)),
                                 !.oldest = IF unevicted = <<>> THEN NULL
                                            ELSE Head(unevicted)]
        /\ unevicted' =
               LET u == IF s.victim = NULL THEN unevicted
                        ELSE Remove(unevicted, s.victim)
               IN  IF s.mapped = NULL THEN u ELSE Append(u, s.mapped)
        /\ map_calls' = map_calls + (s.num_loads - num_loads)
        /\ scen' = ScenNext(ev')
        /\ UNCHANGED <<shadow, sig>>

NewAccess(addr, op, val) ==
    [Idle EXCEPT !.op = op, !.addr = addr, !.val = val,
                 !.from = prot[addr_to_page(addr)],
                 !.pte0 = page_table[addr_to_page(addr)]]

\* the host starts a load or a store in the pool
HostAccess(pages, values, maxf) ==
    /\ aborted = ""
    /\ pending.op = "none"
    /\ \E p \in pages :
          \/ Complete(NewAccess(page_to_addr(p), "read", 0))
          \/ Fault(NewAccess(page_to_addr(p), "read", 0), maxf)
          \/ \E v \in values :
                \/ Complete(NewAccess(page_to_addr(p), "write", v))
                \/ Fault(NewAccess(page_to_addr(p), "write", v), maxf)

\* the handler has returned and the faulting instruction is run again
HostRetry(maxf) ==
    /\ aborted = ""
    /\ pending.op # "none"
    /\ \/ Complete(pending)
       \/ Fault(pending, maxf)

\* SIGALRM is delivered between two instructions of the host (ev keeps the
\* last step that changed something)
Tick ==
    /\ aborted = ""
    /\ LET s == sigalrm_handler(St) IN
       /\ Install(s)
       /\ pending' = IF pending.op = "none" THEN pending
                     ELSE [pending EXCEPT !.tk = @ \/
                              s.page_table[addr_to_page(pending.addr)]
                                  # page_table[addr_to_page(pending.addr)]]
       /\ ev' = IF s = St THEN ev ELSE [NoEvent EXCEPT !.kind = "tick"]
       /\ scen' = IF s = St THEN scen ELSE ScenNext(ev')
    /\ UNCHANGED <<shadow, unevicted, map_calls, sig>>

\* SIGALRM is delivered between two instructions of the host, and the step
\* records what the tick found, whether or not it changed anything
TickSeen ==
    /\ aborted = ""
    /\ LET s == sigalrm_handler(St) IN
       /\ Install(s)
       /\ pending' = IF pending.op = "none" THEN pending
                     ELSE [pending EXCEPT !.tk = @ \/
                              s.page_table[addr_to_page(pending.addr)]
                                  # page_table[addr_to_page(pending.addr)]]
       /\ ev' = [NoEvent EXCEPT
                    !.kind = "tick",
                    !.q0 = QueueToTail(loaded),
                    !.acc0 = {p \in Pages : page_table[p].accessed}]
       /\ scen' = ScenNext(ev')
    /\ UNCHANGED <<shadow, unevicted, map_calls, sig>>

\* SIGALRM is delivered between two instructions of the host, MaxTicks times
\* in all
TickCounted ==
    /\ aborted = ""
    /\ sig.ticks < MaxTicks
    /\ LET s == sigalrm_handler(St) IN
       /\ Install(s)
       /\ pending' = IF pending.op = "none" THEN pending
                     ELSE [pending EXCEPT !.tk = @ \/
                              s.page_table[addr_to_page(pending.addr)]
                                  # page_table[addr_to_page(pending.addr)]]
       /\ ev' = [NoEvent EXCEPT !.kind = "tick"]
       /\ scen' = ScenNext(ev')
    /\ sig' = [sig EXCEPT !.ticks = @ + 1]
    /\ UNCHANGED <<shadow, unevicted, map_calls>>

\* the host jumps into the pool: the instruction fetch is refused whatever the
\* page's permission, since no page of the pool is executable
HostExec(pages, maxf) ==
    /\ aborted = ""
    /\ pending.op = "none"
    /\ \E p \in pages : Fault(NewAccess(page_to_addr(p), "exec", 0), maxf)

\* the host loads from the first or the last byte of the pool
EdgeAccess(maxf) ==
    /\ aborted = ""
    /\ pending.op = "none"
    /\ \E addr \in {vmem_start, vmem_end - 1} :
          \/ Complete(NewAccess(addr, "read", 0))
          \/ Fault(NewAccess(addr, "read", 0), maxf)

\* the host touches the byte just below or just above the pool, nothing is
\* mapped or accessible there, and SIGSEGV is delivered with that address
StrayAccess ==
    /\ aborted = ""
    /\ pending.op = "none"
    /\ \E addr \in {vmem_start - 1, vmem_end},
          code \in {SEGV_MAPERR, SEGV_ACCERR} :
          /\ Install(sigsegv_handler(St, addr, code))
          /\ ev' = [NoEvent EXCEPT !.kind = "stray", !.addr = addr, !.code = code]
    /\ UNCHANGED <<pending, shadow, unevicted, map_calls, scen, sig>>

\* ---- the handlers step by step, with the kernel's signal mask
\* the running handler's view of the program: the globals and what it has
\* reported so far
Handling ==
    [St EXCEPT !.victim = sig.frame.victim, !.mapped = sig.frame.mapped,
               !.written = sig.frame.written]

\* the handler's step took the program to s and goes on at pc
Step(s, pc) ==
    /\ Install(s)
    /\ sig' = [sig EXCEPT !.pc = IF Running(s) THEN pc ELSE "aborted",
                          !.frame.victim = s.victim,
                          !.frame.mapped = s.mapped,
                          !.frame.written = s.written]
    /\ UNCHANGED <<pending, ev, shadow, unevicted, map_calls, scen>>

\* the host's access completes without a fault
HostComplete(pages) ==
    /\ aborted = ""
    /\ sig.pc = "host"
    /\ \/ /\ pending.op = "none"
          /\ \E p \in pages, op \in {"read", "write"} :
                Complete(NewAccess(page_to_addr(p), op, 1))
       \/ /\ pending.op # "none"
          /\ Complete(pending)

\* the host's access (a new one, or the retry of the pending one) is refused
\* and the kernel delivers SIGSEGV: the handler starts with SIGSEGV and its
\* sa_mask blocked
SegvDeliver(pages, maxf) ==
    /\ aborted = ""
    /\ sig.pc = "host"
    /\ SIGSEGV \notin sig.blocked
    /\ num_faults < maxf
    /\ \E a \in IF pending.op # "none" THEN {pending}
                ELSE {NewAccess(page_to_addr(p), op, 1) :
                         p \in pages, op \in {"read", "write"}} :
          LET page == addr_to_page(a.addr) IN
          /\ ~Allowed(a.op, prot[page])
          /\ pending' = a
          /\ sig' = [sig EXCEPT
                        !.pc = "entry",
                        !.blocked = @ \cup {SIGSEGV} \cup SegvMask,
                        !.frame = [NoFrame EXCEPT
                                      !.addr = a.addr,
                                      !.code = IF prot[page] = UNMAPPED
                                               THEN SEGV_MAPERR ELSE SEGV_ACCERR,
                                      !.nl0 = num_loads,
                                      !.fpte = page_table[page]]]
    /\ UNCHANGED <<policy, page_table, num_resident, max_resident, num_faults,
                   num_loads, loaded, prot, mem, swap, aborted, ev, shadow,
                   unevicted, map_calls, scen>>

\* lines 627-693: the range test, num_faults++, and which case it is
SegvEntry ==
    /\ aborted = ""
    /\ sig.pc = "entry"
    /\ LET f == sig.frame
           s == Handling
       IN  IF f.addr < vmem_start \/ f.addr >= vmem_end
           THEN Step(Abort(s, AB_SEGFAULT), "aborted")
           ELSE LET s1 == [s EXCEPT !.num_faults = @ + 1] IN
                IF f.code = SEGV_ACCERR THEN Step(s1, "accerr")
                ELSE IF ~(s1.num_resident <= s1.max_resident)
                THEN Step(Abort(s1, AB_ASSERT_CAP), "aborted")
                ELSE IF s1.num_resident = s1.max_resident
                THEN Step(s1, "choose")
                ELSE Step(s1, "map")

\* lines 697-698: the victim is chosen, and assert(is_page_resident(victim))
SegvChoose ==
    /\ aborted = ""
    /\ sig.pc = "choose"
    /\ LET r == choose_and_evict_victim_page(Handling)
           r1 == IF Running(r) /\ ~is_page_resident(r, r.victim)
                 THEN Abort(r, AB_ASSERT_VICTIM) ELSE r
       IN  /\ Install(r1)
           /\ sig' = [sig EXCEPT
                         !.pc = IF Running(r1) THEN "unmap" ELSE "aborted",
                         !.frame.victim = r1.victim,
                         !.frame.vpte = IF r1.victim \in Pages
                                        THEN page_table[r1.victim] ELSE ZeroPTE]
           /\ UNCHANGED <<pending, ev, shadow, unevicted, map_calls, scen>>

\* line 699: unmap_page(victim)
SegvUnmap ==
    /\ aborted = ""
    /\ sig.pc = "unmap"
    /\ Step(unmap_page(Handling, sig.frame.victim), "map")

\* line 704: map_page(page, PAGEPERM_NONE)
SegvMap ==
    /\ aborted = ""
    /\ sig.pc = "map"
    /\ Step(map_page(Handling, addr_to_page(sig.frame.addr), PAGEPERM_NONE),
            "return")

\* lines 709-737
SegvAccerr ==
    /\ aborted = ""
    /\ sig.pc = "accerr"
    /\ Step(segv_accerr(Handling, addr_to_page(sig.frame.addr)), "return")

\* the handler returns: the kernel restores the signal mask and the host
\* runs the faulting instruction again
SegvReturn ==
    /\ aborted = ""
    /\ sig.pc = "return"
    /\ LET f == sig.frame IN
       /\ sig' = [sig EXCEPT !.pc = "host",
                             !.blocked = @ \ ({SIGSEGV} \cup SegvMask),
                             !.frame = NoFrame]
       /\ pending' = [pending EXCEPT !.nf = @ + 1,
                                     !.nl = @ + (num_loads - f.nl0)]
       /\ ev' = [NoEvent EXCEPT !.kind = "fault", !.op = pending.op,
                                !.page = addr_to_page(f.addr),
                                !.code = f.code, !.victim = f.victim,
                                !.written = f.written, !.vpte = f.vpte,
                                !.fpte = f.fpte,
                                !.paired = (f.victim = NULL
                                            \/ f.victim \in Range(unevicted)),
                                !.oldest = IF unevicted = <<>> THEN NULL
                                           ELSE Head(unevicted)]
       /\ unevicted' =
              LET u == IF f.victim = NULL THEN unevicted
                       ELSE Remove(unevicted, f.victim)
              IN  IF f.mapped = NULL THEN u ELSE Append(u, f.mapped)
       /\ map_calls' = map_calls + (num_loads - f.nl0)
       /\ scen' = ScenNext(ev')
    /\ UNCHANGED <<policy, page_table, num_resident, max_resident, num_faults,
                   num_loads, loaded, prot, mem, swap, aborted, shadow>>

\* the interval timer expires and SIGALRM becomes pending, wherever the
\* process is
TimerExpires ==
    /\ aborted = ""
    /\ ~sig.alarm
    /\ sig' = [sig EXCEPT !.alarm = TRUE, !.raised = sig.pc]
    /\ UNCHANGED <<policy, page_table, num_resident, max_resident, num_faults,
                   num_loads, loaded, prot, mem, swap, aborted, pending, ev,
                   shadow, unevicted, map_calls, scen>>

\* the kernel delivers the pending SIGALRM as soon as it is not blocked, and
\* sigalrm_handler runs (with SIGALRM and its sa_mask blocked) to its end
AlrmDeliver ==
    /\ aborted = ""
    /\ sig.alarm
    /\ SIGALRM \notin sig.blocked
    /\ LET s == sigalrm_handler(St) IN
       /\ Install(s)
       /\ pending' = IF pending.op = "none" THEN pending
                     ELSE [pending EXCEPT !.tk = @ \/
                              s.page_table[addr_to_page(pending.addr)]
                                  # page_table[addr_to_page(pending.addr)]]
       /\ ev' = [NoEvent EXCEPT !.kind = "tick", !.raised = sig.raised,
                                !.during = sig.pc]
       /\ scen' = ScenNext(ev')
    /\ sig' = [sig EXCEPT !.alarm = FALSE, !.raised = ""]
    /\ UNCHANGED <<shadow, unevicted, map_calls>>

\* the host calls vmem_init again, between two of its accesses
VmemInit(residents, maxl) ==
    /\ aborted = ""
    /\ pending.op = "none"
    /\ num_loads < maxl
    /\ \E mr \in residents :
          /\ Install(vmem_init(St, mr))
          /\ pending' = Idle
          /\ ev' = [NoEvent EXCEPT !.val = mr]
          /\ shadow' = [p \in Pages |-> IF prot[p] # UNMAPPED THEN mem[p] ELSE 0]
          /\ unevicted' = <<>>
          /\ map_calls' = 0
          /\ scen' = 0
          /\ UNCHANGED sig

Init == InitWith({FIFO, CLRU}, 1 .. MaxResident)

Next ==
    \/ HostAccess(HostPages, {1}, MaxFaults)
    \/ HostRetry(MaxFaults)
    \/ Tick

Spec == Init /\ [][Next]_vars

\* the FIFO build, whose host touches every page and stores one value
InitFifo == InitWith({FIFO}, 2 .. MaxResident)

NextFifo ==
    \/ HostAccess(Pages, {1}, MaxFaultsFifo)
    \/ HostRetry(MaxFaultsFifo)
    \/ Tick

SpecFifo == InitFifo /\ [][NextFifo]_vars

\* the host that stores several values in a few pages
InitData == InitWith({FIFO, CLRU}, 1 .. MaxResidentData)

NextData ==
    \/ HostAccess(0 .. (MaxTouchedData - 1), 1 .. MaxVal, MaxFaultsData)
    \/ HostRetry(MaxFaultsData)
    \/ Tick

SpecData == InitData /\ [][NextData]_vars

\* the host that initializes the pager more than once
InitReinit == InitWith({FIFO, CLRU}, 1 .. MaxResidentReinit)

NextReinit ==
    \/ HostAccess(0 .. (MaxTouchedReinit - 1), {1}, MaxFaultsReinit)
    \/ HostRetry(MaxFaultsReinit)
    \/ Tick
    \/ VmemInit(1 .. MaxResidentReinit, MaxLoadsReinit)

SpecReinit == InitReinit /\ [][NextReinit]_vars

\* the host that also touches the edges of the pool and the bytes around it
InitStray == InitWith({FIFO, CLRU}, 1 .. MaxResidentData)

NextStray ==
    \/ HostAccess(0 .. (MaxTouchedData - 1), {1}, MaxFaultsData)
    \/ HostRetry(MaxFaultsData)
    \/ Tick
    \/ EdgeAccess(MaxFaultsData)
    \/ StrayAccess

SpecStray == InitStray /\ [][NextStray]_vars

\* the handlers run step by step under the kernel's signal mask
InitSignals == InitWith({FIFO, CLRU}, 1 .. MaxResidentReinit)

NextSignals ==
    \/ HostComplete(0 .. (MaxTouchedReinit - 1))
    \/ SegvDeliver(0 .. (MaxTouchedReinit - 1), MaxFaultsReinit)
    \/ SegvEntry
    \/ SegvChoose
    \/ SegvUnmap
    \/ SegvMap
    \/ SegvAccerr
    \/ SegvReturn
    \/ TimerExpires
    \/ AlrmDeliver

SpecSignals == InitSignals /\ [][NextSignals]_vars

\* the host that also jumps into the pool
InitExec == InitWith({FIFO, CLRU}, 1 .. MaxResidentReinit)

NextExec ==
    \/ HostAccess(0 .. (MaxTouchedReinit - 1), {1}, MaxFaultsReinit)
    \/ HostRetry(MaxFaultsReinit)
    \/ Tick
    \/ HostExec(0 .. (MaxTouchedReinit - 1), MaxFaultsReinit)

SpecExec == InitExec /\ [][NextExec]_vars

\* the host given one resident page
InitThrash == InitWith({FIFO, CLRU}, {1})

NextThrash ==
    \/ HostAccess(0 .. (MaxTouchedReinit - 1), {1}, MaxFaultsFifo)
    \/ HostRetry(MaxFaultsFifo)
    \/ Tick

SpecThrash == InitThrash /\ [][NextThrash]_vars

\* the CLOCK/LRU build, every tick recorded
InitTick == InitWith({CLRU}, 1 .. MaxResident)

NextTick ==
    \/ HostAccess(HostPages, {1}, MaxFaults)
    \/ HostRetry(MaxFaults)
    \/ TickSeen

SpecTick == InitTick /\ [][NextTick]_vars

\* Two pages that the host stores several values to, with room for one or two
InitSwap == InitWith({FIFO, CLRU}, 1 .. MaxResidentReinit)

NextSwap ==
    \/ HostAccess(0 .. (MaxTouchedReinit - 1), 1 .. MaxVal, MaxFaultsData)
    \/ HostRetry(MaxFaultsData)
    \/ Tick

SpecSwap == InitSwap /\ [][NextSwap]_vars

\* The host that is always scheduled again.  A tick that resets the page
\* between a handler's return and the retry costs the access at most two more
\* faults, so with MaxTicks ticks an access begun below MaxFaultsLive is never
\* held back by RetryCap: the retry is limited by nothing but the pager.
RetryCap == MaxFaultsLive + 2 + 2 * MaxTicks

InitLive == InitWith({FIFO, CLRU}, 1 .. MaxResident)

NextLive ==
    \/ HostAccess(0 .. (MaxTouchedLive - 1), {1}, MaxFaultsLive)
    \/ HostRetry(RetryCap)
    \/ TickCounted

SpecLive == InitLive /\ [][NextLive]_vars /\ WF_vars(HostRetry(RetryCap))

\* ------------------------------------------------------------------ claims
Resident == {p \in Pages : page_table[p].resident}

\* what a load from page p returns once its faults are resolved
Content(p) == IF prot[p] # UNMAPPED THEN mem[p] ELSE swap[p]

Evicted == ev.kind = "fault" /\ ev.victim # NULL

\* C1: after every handler returns, num_resident is the number of pages whose
\* resident bit is set and 0 <= num_resident <= max_resident; map_page never
\* aborts with "exceeded physical memory".
C1_ResidentCount ==
    /\ aborted # AB_EXCEEDED
    /\ aborted = "" =>
          /\ num_resident = Cardinality(Resident)
          /\ 0 <= num_resident
          /\ num_resident <= max_resident

\* a fault at the cap evicted a page and mapped another, under CLOCK/LRU
C1_Witness ==
    /\ aborted = ""
    /\ policy = CLRU
    /\ Evicted
    /\ max_resident = 2
    /\ num_resident = max_resident

\* C2: a load from page p returns the value the host last stored to p (the
\* swap file's initial 0 if none), whatever evictions and ticks came between:
\* in every state the contents a load of p would find are the last value
\* stored, and every completed load returned it.
C2_RoundTrip ==
    aborted = "" =>
        /\ \A p \in Pages : Content(p) = shadow[p]
        /\ (ev.kind = "done" /\ ev.op = "read") => ev.val = shadow[ev.page]

\* a load of a page that was not mapped when the load began returns the value
\* 2 stored before the page was evicted
C2_Witness ==
    /\ ev.kind = "done"
    /\ ev.op = "read"
    /\ ev.from = UNMAPPED
    /\ ev.val = 2
    /\ policy = CLRU

\* C3 as stated: after every handler, dirty(p) implies accessed(p).
C3_DirtyImpliesAccessed ==
    aborted = "" =>
        \A p \in Pages : page_table[p].dirty => page_table[p].accessed

\* C3 amended: after every handler, dirty(p) implies accessed(p) unless a
\* CLOCK/LRU tick has cleared accessed and set the permission to NONE, which
\* leaves dirty set: dirty(p) implies accessed(p) or (the policy is CLOCK/LRU
\* and permission(p) = NONE).
C3_DirtyAccessedOrReset ==
    aborted = "" =>
        \A p \in Pages :
            page_table[p].dirty =>
                \/ page_table[p].accessed
                \/ policy = CLRU /\ page_table[p].perm = PAGEPERM_NONE

\* a tick has reset a dirty page
C3_Witness ==
    /\ aborted = ""
    /\ ev.kind = "tick"
    /\ \E p \in Pages : /\ page_table[p].dirty
                         /\ ~page_table[p].accessed
                         /\ page_table[p].perm = PAGEPERM_NONE

\* C4: whenever a page's resident bit is set, the permission in its page-table
\* entry is the protection in force on its address range.
C4_PermissionIsProtection ==
    \A p \in Pages :
        page_table[p].resident =>
            prot[p] = pageperm_to_mmap(page_table[p].perm)

\* a tick has lowered a dirty page to NONE, and another page is writable
C4_Witness ==
    /\ policy = CLRU
    /\ \E p, r \in Pages :
          /\ page_table[p].dirty
          /\ prot[p] = PROT_NONE
          /\ page_table[r].resident
          /\ prot[r] = PROT_READ_WRITE

\* C5: under FIFO the victim is always the page mapped earliest among those
\* mapped and not yet evicted, and the queue is those pages in the order of
\* their page_mapped calls, so victims leave in the order pages were mapped.
C5_FifoOrder ==
    policy = FIFO =>
        /\ Evicted => ev.victim = ev.oldest
        /\ aborted = "" => Queue(loaded) = unevicted

\* max_resident = 3, five loads of five pages: 0, 1, 2, 3 (evicting 0) and
\* now 4, which evicts page 1
C5_Witness ==
    /\ policy = FIFO
    /\ max_resident = 3
    /\ num_loads = 5
    /\ Evicted
    /\ ev.page = 4
    /\ ev.victim = 1
    /\ unevicted = <<2, 3, 4>>
    /\ prot[0] = UNMAPPED

\* C6 as stated: in the scenario ClockScenario the page evicted for page 3 is
\* page 2.
C6_EvictsPage2 == scen = 8 => ev.victim = 2

\* C6 amended: in the scenario ClockScenario (touch 0, 1, 2, touch 0 and 1
\* again, one tick, touch 3) the page evicted for page 3 is page 0: the first
\* touches set accessed on all three pages, so the tick moves all three to the
\* tail in turn and leaves the queue 0, 1, 2.
C6_EvictsPage0 == scen = 8 => ev.victim = 0

C6_Witness == scen = 8 /\ aborted = "" /\ Queue(loaded) = <<1, 2, 3>>

\* C7: the page choose_and_evict_victim_page returns is resident when it is
\* returned: neither assert(is_page_resident(victim)) in the handler nor
\* assert(is_page_resident(page)) in unmap_page fails.
C7_VictimResident ==
    /\ aborted \notin {AB_ASSERT_VICTIM, AB_ASSERT_UNMAP_RESIDENT}
    /\ Evicted => ev.vpte.resident

\* a dirty page was returned as victim, under FIFO
C7_Witness ==
    /\ policy = FIFO
    /\ Evicted
    /\ ev.vpte.resident
    /\ ev.vpte.dirty
    /\ aborted = ""

\* C8: a page returned as victim had been passed to page_mapped and not been
\* returned as victim since.
C8_VictimWasMapped == Evicted => ev.paired

\* under CLOCK/LRU, after ticks reordered the queue, a victim that is not the
\* page mapped earliest
C8_Witness ==
    /\ policy = CLRU
    /\ Evicted
    /\ ev.paired
    /\ ev.victim # ev.oldest

\* C9: num_loads is the number of map_page calls since the last vmem_init,
\* and num_loads <= num_faults.
C9_LoadsSinceInit ==
    /\ num_loads = map_calls
    /\ num_loads <= num_faults

\* C10 as stated: a load of a page that is not mapped costs exactly two faults
\* and one page load and leaves the page READ, accessed, not dirty; a store to
\* a page left READ costs exactly one fault and no page load and leaves the
\* page RDWR and dirty.
C10_Costs(e) ==
    /\ (e.kind = "done" /\ e.op = "read" /\ e.from = UNMAPPED) =>
          /\ e.nf = 2
          /\ e.nl = 1
          /\ page_table[e.page] = [perm |-> PAGEPERM_READ, resident |-> TRUE,
                                    accessed |-> TRUE, dirty |-> FALSE]
    /\ (e.kind = "done" /\ e.op = "write" /\ e.from = PROT_READ) =>
          /\ e.nf = 1
          /\ e.nl = 0
          /\ page_table[e.page].resident
          /\ page_table[e.page].perm = PAGEPERM_RDWR
          /\ page_table[e.page].dirty

C10_ReadTwoFaults == C10_Costs(ev)

\* C10 amended: the same, provided no timer tick changes the page's entry
\* between the start of the access and its completion (a CLOCK/LRU tick that
\* finds the page accessed sets it back to NONE, and the retried access
\* faults again).
C10_ReadTwoFaultsNoTick == ~ev.tk => C10_Costs(ev)

\* a store to a page left READ by a load completed after one fault, CLOCK/LRU
C10_Witness ==
    /\ policy = CLRU
    /\ ev.kind = "done"
    /\ ev.op = "write"
    /\ ev.from = PROT_READ
    /\ ~ev.tk
    /\ ev.nf = 1
    /\ num_resident = 2

\* C11 as stated: the first access to a non-resident page faults with
\* not-mapped; a page that has been read and stayed resident (so it is
\* resident and not dirty when the next access begins) is read again without
\* a fault, and a write to it faults with access-forbidden.
C11_ReadAgainNoFault ==
    /\ (ev.kind = "fault" /\ pending.nf = 1 /\ ~pending.pte0.resident) =>
           ev.code = SEGV_MAPERR
    /\ (ev.kind = "done" /\ ev.pte0.resident /\ ~ev.pte0.dirty) =>
           IF ev.op = "read" THEN ev.nf = 0 ELSE ev.nf >= 1
    /\ (ev.kind = "fault" /\ pending.pte0.resident) => ev.code = SEGV_ACCERR

\* C11 amended: a fault is not-mapped exactly when it is the first fault of
\* an access to a page that was not resident when the access began, and every
\* such access faults; a read of a resident page raises no fault while the
\* page's accessed bit is set, and one access-forbidden fault once a CLOCK/LRU
\* tick has cleared it (more if ticks fire during the access); a write to a
\* resident page that is not dirty raises at least one access-forbidden fault,
\* exactly one if its accessed bit is set and no tick fires during the access.
C11_FaultKinds ==
    /\ ev.kind = "fault" =>
           (ev.code = SEGV_MAPERR <=> (pending.nf = 1 /\ ~pending.pte0.resident))
    /\ ev.kind = "fault" => ev.code \in {SEGV_MAPERR, SEGV_ACCERR}
    /\ (ev.kind = "done" /\ ~ev.pte0.resident) => ev.nf >= 2
    /\ (ev.kind = "done" /\ ev.op = "read" /\ ev.pte0.resident) =>
           /\ ev.pte0.accessed => ev.nf = 0
           /\ (~ev.pte0.accessed /\ ~ev.tk) => ev.nf = 1
           /\ ~ev.pte0.accessed => (policy = CLRU /\ ev.nf >= 1)
    /\ (ev.kind = "done" /\ ev.op = "write" /\ ev.pte0.resident
           /\ ~ev.pte0.dirty) =>
           /\ ev.nf >= 1
           /\ (ev.pte0.accessed /\ ~ev.tk) => ev.nf = 1

\* under CLOCK/LRU a page that was read and then reset by a tick is read again
\* at the cost of one access-forbidden fault
C11_Witness ==
    /\ policy = CLRU
    /\ ev.kind = "done"
    /\ ev.op = "read"
    /\ ev.pte0.resident
    /\ ~ev.pte0.accessed
    /\ ~ev.pte0.dirty
    /\ ev.nf = 1

\* C12: unmap_page writes the swap file only for a dirty page and then only
\* that page's slot: a fault writes the victim's slot if the victim was dirty
\* and no slot otherwise; the slot of a page the host never stored to keeps
\* its original contents (0); the slot of a resident page that is not dirty
\* holds the page's contents.
C12_CleanNoWrite ==
    /\ ev.kind = "fault" =>
           ev.written = IF ev.victim # NULL /\ ev.vpte.dirty THEN ev.victim
                        ELSE NULL
    /\ \A p \in Pages : shadow[p] = 0 => swap[p] = 0
    /\ aborted = "" =>
           \A p \in Pages :
               (page_table[p].resident /\ ~page_table[p].dirty) => swap[p] = mem[p]

\* max_resident = 1: read page 0, read page 1, read page 0 again; three loads,
\* nothing written to swap, and the load returns the original contents
C12_Witness ==
    /\ max_resident = 1
    /\ num_loads = 3
    /\ num_faults = 6
    /\ ev.kind = "done"
    /\ ev.op = "read"
    /\ ev.page = 0
    /\ ev.val = 0
    /\ prot[1] = UNMAPPED
    /\ \A p \in Pages : swap[p] = 0 /\ shadow[p] = 0

\* C13: a fault at an address outside [vmem_start, vmem_end) ends the process
\* with the segmentation-fault abort and changes none of the page table,
\* num_resident, num_faults, num_loads, the swap file and the policy's queue;
\* a fault at an address inside the range never ends with that abort.
C13_OutOfPoolAborts ==
    [][ /\ ev'.kind = "stray" =>
              /\ aborted' = AB_SEGFAULT
              /\ UNCHANGED <<page_table, num_resident, num_faults, num_loads,
                             swap, loaded>>
        /\ aborted' = AB_SEGFAULT => ev'.kind = "stray"
        /\ ev'.kind = "fault" =>
              /\ pending'.addr >= vmem_start
              /\ pending'.addr < vmem_end
              /\ num_faults' = num_faults + 1 ]_vars

\* the process was ended by a fault at vmem_end after pages were loaded,
\* the last byte of the pool among them
C13_Witness ==
    /\ aborted = AB_SEGFAULT
    /\ ev.kind = "stray"
    /\ ev.addr = vmem_end
    /\ page_table[NUM_PAGES - 1].resident
    /\ num_resident = 2
    /\ num_faults = 4

\* C14: sigalrm_handler never runs while sigsegv_handler is in progress:
\* SIGALRM is blocked from the delivery of SIGSEGV to the handler's return, so
\* every tick runs with the host interrupted and no handler, and it finds
\* num_resident and the queue as a completed map_page or unmap_page left them.
C14_TickNotDuringFault ==
    /\ sig.pc # "host" => SIGALRM \in sig.blocked
    /\ ev.kind = "tick" => ev.during = "host"

\* a SIGALRM raised between unmap_page and map_page was delivered after the
\* handler returned
C14_Witness ==
    /\ ev.kind = "tick"
    /\ ev.raised = "map"
    /\ ev.during = "host"
    /\ policy = CLRU
    /\ num_resident = 2
    /\ aborted = ""

\* C15: after every handler, a page whose resident bit is 0 has permission,
\* accessed and dirty 0 and its address range is not mapped, and every mapped
\* page of the pool has its resident bit set.
C15_NonResidentIsZero ==
    aborted = "" =>
        \A p \in Pages :
            /\ ~page_table[p].resident =>
                   /\ page_table[p] = ZeroPTE
                   /\ prot[p] = UNMAPPED
            /\ prot[p] # UNMAPPED => page_table[p].resident

\* a page that was RDWR, accessed and dirty has just been evicted
C15_Witness ==
    /\ aborted = ""
    /\ Evicted
    /\ ev.vpte = [perm |-> PAGEPERM_RDWR, resident |-> TRUE, accessed |-> TRUE,
                  dirty |-> TRUE]
    /\ page_table[ev.victim] = ZeroPTE
    /\ prot[ev.victim] = UNMAPPED

\* C16: an access-forbidden fault delivered for a page whose permission is
\* RDWR ends the process: the handler does not return from it.
C16_RdwrAccerrFatal ==
    (ev.kind = "fault" /\ ev.code = SEGV_ACCERR
        /\ ev.fpte.resident /\ ev.fpte.perm = PAGEPERM_RDWR) => aborted # ""

\* C17: after every call of vmem_init(max_resident) the page table is all
\* zero, num_resident = 0, num_faults = 0, num_loads = 0 and max_resident
\* holds the argument.
C17_InitResets ==
    ev.kind = "init" =>
        /\ \A p \in Pages : page_table[p] = ZeroPTE
        /\ num_resident = 0
        /\ num_faults = 0
        /\ num_loads = 0
        /\ max_resident = ev.val

\* C18: with max_resident = 1, an access to a page other than the one accessed
\* before finds it not resident; its first fault is not-mapped, evicts the
\* page accessed before (once there is one) and loads the accessed page, and
\* the access costs exactly one page load; after each access the accessed page
\* is the only resident page, so with two pages alternating every access
\* faults in this way, and the process never aborts.
C18_AlternationThrashes ==
    max_resident = 1 =>
        /\ aborted = ""
        /\ ev.kind = "done" =>
               /\ Resident = {ev.page}
               /\ ev.nl = IF ev.pte0.resident THEN 0 ELSE 1
               /\ ~ev.pte0.resident => ev.nf >= 2
        /\ (ev.kind = "fault" /\ pending.nf = 1 /\ ~pending.pte0.resident) =>
               /\ ev.code = SEGV_MAPERR
               /\ pending.nl = 1
               /\ Resident = {ev.page}
               /\ map_calls > 1 =>
                      /\ ev.victim \in Pages \ {ev.page}
                      /\ ev.vpte.resident
                      /\ ev.victim = ev.oldest

\* CLOCK/LRU, max_resident = 1, pages 0, 1, 0, 1 read in turn: the fourth
\* access faults not-mapped and evicts page 0 for the second time
C18_Witness ==
    /\ policy = CLRU
    /\ max_resident = 1
    /\ aborted = ""
    /\ ev.kind = "fault"
    /\ ev.code = SEGV_MAPERR
    /\ ev.page = 1
    /\ ev.victim = 0
    /\ num_loads = 4
    /\ num_faults = 7

\* C19: immediately after a CLOCK/LRU tick, whatever the length of the queue,
\* no resident page has accessed set and every page that had accessed set has
\* permission NONE.
C19_TickClearsAccessed ==
    (ev.kind = "tick" /\ aborted = "") =>
        \A p \in Pages :
            page_table[p].resident =>
                /\ ~page_table[p].accessed
                /\ p \in ev.acc0 => page_table[p].perm = PAGEPERM_NONE

\* the pages of seq outside set, then those in set, each in the order of seq
StablePartition(seq, set) ==
    SelectSeq(seq, LAMBDA x : x \notin set) \o SelectSeq(seq, LAMBDA x : x \in set)

\* C20: after a CLOCK/LRU tick the queue read from head to tail is the pages
\* that did not have accessed set, in their previous order, followed by the
\* pages that had accessed set, in their previous order.
C20_TickStablePartition ==
    (ev.kind = "tick" /\ aborted = "") =>
        QueueToTail(loaded) = StablePartition(ev.q0, ev.acc0)

\* C21: every host read or write of an in-pool address eventually completes.
C21_AccessCompletes == (pending.op # "none") ~> (pending.op = "none")

\* C22: an access-forbidden fault on a resident page p changes only p's
\* page-table entry and num_faults: NONE becomes READ with accessed set, READ
\* becomes RDWR with dirty set; num_resident, num_loads, every other page's
\* entry, the pool's contents, the swap file and the policy queue stay as they
\* were, and no page is mapped or unmapped.
C22_AccerrFrame ==
    [][(/\ num_faults' = num_faults + 1
        /\ ev'.kind = "fault"
        /\ ev'.code = SEGV_ACCERR
        /\ page_table[ev'.page].resident)
       => LET p == ev'.page IN
          /\ aborted' = ""
          /\ page_table[p].perm = PAGEPERM_NONE =>
                page_table'[p] = [page_table[p] EXCEPT !.perm = PAGEPERM_READ,
                                                       !.accessed = TRUE]
          /\ page_table[p].perm = PAGEPERM_READ =>
                page_table'[p] = [page_table[p] EXCEPT !.perm = PAGEPERM_RDWR,
                                                       !.dirty = TRUE]
          /\ \A q \in Pages \ {p} :
                page_table'[q] = page_table[q] /\ prot'[q] = prot[q]
          /\ prot'[p] = pageperm_to_mmap(page_table'[p].perm)
          /\ num_resident' = num_resident
          /\ num_loads' = num_loads
          /\ mem' = mem
          /\ swap' = swap
          /\ loaded' = loaded
          /\ ev'.victim = NULL
          /\ map_calls' = map_calls
          /\ unevicted' = unevicted]_vars

\* a write fault has just taken a resident page from READ to RDWR
C22_Witness ==
    /\ ev.kind = "fault"
    /\ ev.code = SEGV_ACCERR
    /\ ev.op = "write"
    /\ ev.fpte.resident
    /\ ev.fpte.perm = PAGEPERM_READ
    /\ page_table[ev.page].perm = PAGEPERM_RDWR
    /\ page_table[ev.page].dirty
    /\ num_resident >= 2

\* C23: right after a not-mapped fault on page p is handled, p is resident
\* with permission NONE, accessed and dirty clear, p's contents in memory equal
\* its swap slot, num_loads has grown by exactly 1 and p is the tail of the
\* policy queue; at most one other page was unmapped, and only if num_resident
\* equalled max_resident before the fault.
C23_MaperrResult ==
    [][(/\ num_faults' = num_faults + 1
        /\ ev'.kind = "fault"
        /\ ev'.code = SEGV_MAPERR)
       => LET p == ev'.page
              before == {q \in Pages : page_table[q].resident}
              after == {q \in Pages : page_table'[q].resident}
              gone == before \ after
          IN  /\ aborted' = ""
              /\ p \notin before
              /\ page_table'[p] = [ZeroPTE EXCEPT !.resident = TRUE]
              /\ page_table'[p].perm = PAGEPERM_NONE
              /\ prot'[p] = PROT_NONE
              /\ mem'[p] = swap'[p]
              /\ num_loads' = num_loads + 1
              /\ loaded'.tail = p
              /\ loaded'.next[p] = NULL
              /\ after = (before \ gone) \cup {p}
              /\ Cardinality(gone) <= 1
              /\ gone # {} => num_resident = max_resident
              /\ gone = {} => num_resident < max_resident
              /\ gone = (IF ev'.victim = NULL THEN {} ELSE {ev'.victim})
              /\ num_resident' = Cardinality(after)]_vars

\* a page whose swap slot holds a value the host stored has just been loaded
\* again, and another page made room for it
C23_Witness ==
    /\ ev.kind = "fault"
    /\ ev.code = SEGV_MAPERR
    /\ ev.victim # NULL
    /\ page_table[ev.page].resident
    /\ swap[ev.page] = 1
    /\ mem[ev.page] = 1
    /\ loaded.tail = ev.page
    /\ num_resident = max_resident

\* C24: after every handler's return, every page that is resident and not
\* dirty has the same contents in memory as in its swap slot, and the swap
\* slot of every page that is not resident holds the last value the host
\* stored to the page (the initial 0 if it never stored).
C24_SwapAuthoritative ==
    aborted = "" =>
        \A p \in Pages :
            /\ (page_table[p].resident /\ ~page_table[p].dirty)
                   => mem[p] = swap[p]
            /\ ~page_table[p].resident => swap[p] = shadow[p]

\* page 0, holding the 2 the host stored, has been evicted, loaded again and
\* only read since, and page 1 is out of memory
C24_Witness ==
    /\ aborted = ""
    /\ page_table[0].resident
    /\ ~page_table[0].dirty
    /\ page_table[0].accessed
    /\ mem[0] = 2
    /\ swap[0] = 2
    /\ shadow[0] = 2
    /\ ~page_table[1].resident
    /\ swap[1] = shadow[1]

\* C25: a timer tick never maps or unmaps a page: under FIFO it changes
\* nothing at all, and under CLOCK/LRU it leaves every resident bit, every
\* dirty bit, num_resident, num_faults, num_loads, the pool's contents, the
\* swap file and the set of pages in the queue unchanged; it may only clear
\* accessed bits, lower permissions to NONE and reorder the queue.
C25_TickFrame ==
    [][(sig'.ticks = sig.ticks + 1 /\ aborted' = "")
       => /\ policy = FIFO =>
                /\ page_table' = page_table
                /\ prot' = prot
                /\ loaded' = loaded
          /\ \A p \in Pages :
                /\ page_table'[p].resident = page_table[p].resident
                /\ page_table'[p].dirty = page_table[p].dirty
                /\ page_table'[p].accessed => page_table[p].accessed
                /\ page_table'[p].perm \in {page_table[p].perm, PAGEPERM_NONE}
                /\ prot'[p] \in {prot[p], PROT_NONE}
                /\ prot[p] = UNMAPPED <=> prot'[p] = UNMAPPED
          /\ num_resident' = num_resident
          /\ num_faults' = num_faults
          /\ num_loads' = num_loads
          /\ mem' = mem
          /\ swap' = swap
          /\ Range(Queue(loaded')) = Range(Queue(loaded))]_vars

\* C26: under both policies, after every handler's return, the pages met
\* following next from the policy queue's head are exactly the pages whose
\* resident bit is set, each met exactly once.
C26_QueueIsResident ==
    aborted = "" =>
        /\ Range(Queue(loaded)) = Resident
        /\ Len(Queue(loaded)) = Cardinality(Resident)

\* C27: in the CLOCK/LRU policy, after any sequence of page_mapped, timer_tick
\* and choose_and_evict_victim_page calls made by the pager, following next
\* from head visits exactly num_loaded distinct nodes and ends at tail, tail's
\* next is NULL, num_loaded equals num_resident, and neither the tick's walk
\* nor choose_and_evict_victim_page dereferences a NULL or freed node.
C27_WellFormed ==
    policy = CLRU =>
        /\ aborted \notin {AB_NULL_DEREF, AB_USE_AFTER_FREE}
        /\ aborted = "" =>
              /\ Len(Queue(loaded)) = loaded.num_loaded
              /\ Cardinality(Range(Queue(loaded))) = loaded.num_loaded
              /\ loaded.num_loaded = num_resident
              /\ loaded.num_loaded > 0 =>
                    /\ Queue(loaded)[loaded.num_loaded] = loaded.tail
                    /\ loaded.next[loaded.tail] = NULL
              /\ loaded.num_loaded = 0 => loaded.head = NULL

\* C28: after every handler's return, under either policy, every resident
\* page with permission RDWR has dirty set and every resident page with
\* permission READ or RDWR has accessed set.
C28_PermissionImpliesBits ==
    aborted = "" =>
        \A p \in Pages :
            page_table[p].resident =>
                /\ page_table[p].perm = PAGEPERM_RDWR => page_table[p].dirty
                /\ page_table[p].perm \in {PAGEPERM_READ, PAGEPERM_RDWR}
                       => page_table[p].accessed

\* under CLOCK/LRU a page that was stored to has been set back to NONE by a
\* tick and raised to READ again by a read: dirty and accessed, not writable;
\* another page is writable
C28_Witness ==
    /\ aborted = ""
    /\ policy = CLRU
    /\ \E p, q \in Pages :
          /\ page_table[p].resident
          /\ page_table[p].perm = PAGEPERM_READ
          /\ page_table[p].dirty
          /\ page_table[p].accessed
          /\ page_table[q].resident
          /\ page_table[q].perm = PAGEPERM_RDWR
          /\ page_table[q].dirty

====
